---------------------------- MODULE Spec2Model ----------------------------
(***************************************************************************)
(* serial-sensor-hub: the IRC relay bot (irc.go, IRCBot), the serial       *)
(* reader (logger.go, serialMonitor), the orchestrator loop (main.go,      *)
(* main) and the logger (logger.go, StartLogger), as state machines.       *)
(*                                                                         *)
(* Text is modelled as a sequence of tokens.  The token " " is white       *)
(* space, every other token stands for a run of non-space characters, and  *)
(* ":" and "!" are always tokens of their own, so that a prefix test on    *)
(* tokens is the prefix test strings.HasPrefix makes on characters.        *)
(* Durations are whole milliseconds (the code's time.Duration counts       *)
(* nanoseconds; TLC's integers are 32 bits wide).                          *)
(***************************************************************************)
EXTENDS Integers, Sequences, FiniteSets, TLC

VARIABLES
    \* ---- IRCBot (irc.go) ----
    pc,             \* where IRCBot is: top, sleep, select, nick, user, join,
                    \* spawn, input, done
    conn,           \* the variable conn: "nil" or "conn"
    err,            \* the variable err of IRCBot: "nil" or "err"
    connDelay,      \* the backoff delay, in milliseconds
    registered,     \* session flag, declared at line 124
    joined,         \* session flag, declared at line 125
    cancelled,      \* ctx.Done() is closed
    reportChan,     \* the channel `in` of IRCBot (main's reportChan)
    lineChan,       \* the lines buffered in the current lineChan
    lineChanClosed, \* the reader closed lineChan
    reader,         \* the reader goroutine: none, scan, send, exit
    rconn,          \* the transport the reader scans is still open
    \* ---- observations of IRCBot ----
    openTransports, \* transports dialled and not closed yet
    wire,           \* the first lines written on the current transport
    lastOut,        \* the line written by IRCBot's latest step, or NoLine
    sendErr,        \* IRCBot's latest step called ircSend and got an error
    got001,         \* a 001 was dispatched on the current transport
    gotJoin,        \* our own JOIN was dispatched on the current transport
    spawned,        \* a reader was started for the current transport
    slept,          \* the delay slept before the current attempt; 0 before
                    \* the first attempt and once the attempt has reached
                    \* the joined state
    sleptLess,      \* the previous attempt ended without reaching the joined
                    \* state and the current attempt slept less than it did
    \* ---- the pipeline: serialMonitor, main, StartLogger ----
    serialPc,       \* SerialConnect: find, findSleep, stty, open, scan,
                    \* send, endSleep
    serialLine,     \* the matching line serialMonitor is sending
    sensorChan,     \* main's sensorChan
    mainPc,         \* main's loop: recv, sendReport, sendLog
    mainSummary,    \* the summary main is submitting
    mainRecord,     \* the record main is logging
    sensorLogChan,  \* main's sensorLogChan
    histories,      \* main's map of node histories
    now,            \* the clock time.Now() reads, in hours
    skipped,        \* observation: the warning main logged if it skipped
                    \* the latest line, NoSkip if it did not
    \* ---- SerialConnect and the device files ----
    devs,           \* the device paths that exist under /dev
    port,           \* the path serialFindPort returned, or NoPort
    serialOpen      \* serialMonitor holds an open file

botVars == <<pc, conn, err, connDelay, registered, joined, lineChan,
             lineChanClosed, reader, rconn, openTransports, wire, lastOut,
             sendErr, got001, gotJoin, spawned, slept, sleptLess>>
hubVars == <<histories, now, skipped>>
portVars == <<devs, port, serialOpen>>
pipeVars == <<serialPc, serialLine, sensorChan, mainPc, mainSummary,
              mainRecord, sensorLogChan, hubVars, portVars>>
vars == <<botVars, cancelled, reportChan, pipeVars>>

----------------------------------------------------------------------------
(* Bounds of the model                                                     *)

\* the rows ReadSensorLogHistory finds in the log files
MaxLoaded == 2
\* the reports the histories hold in all
MaxReports == 3
\* the clock stops here
MaxClock == 26
\* capacity of lineChan (the code makes it 64)
LineChanCap == 1
\* capacity of reportChan (the code makes it 32)
ReportChanCap == 1
\* capacity of sensorChan (the code makes it 32)
SensorChanCap == 1
\* capacity of sensorLogChan (the code makes it 32)
SensorLogChanCap == 1

----------------------------------------------------------------------------
(* Configuration and constants                                             *)

Nick == "bot"
Channel == "#chan"

baseDelay == 3000
maxDelay == 600000

\* The values rand.Float64() returns, as fractions <<n, d>> = n/d of [0, 1).
RandFloats == {<<0, 4>>, <<3, 4>>}

\* The summaries the orchestrator submits.
Summaries == {<<"s1">>, <<"s2">>}

NoLine == <<>>

----------------------------------------------------------------------------
(* Text helpers                                                            *)

HasPrefix(s, p) == Len(p) <= Len(s) /\ SubSeq(s, 1, Len(p)) = p

RECURSIVE SkipSpaces(_)
SkipSpaces(s) ==
    IF s # <<>> /\ Head(s) = " " THEN SkipSpaces(Tail(s)) ELSE s

RECURSIVE TakeWord(_)
TakeWord(s) ==
    IF s = <<>> \/ Head(s) = " " THEN <<>>
    ELSE <<Head(s)>> \o TakeWord(Tail(s))

DropWord(s) == SubSeq(s, Len(TakeWord(s)) + 1, Len(s))

\* ircLineRE: ^((:\S+)\s+)?(\S+)\s*(.*)  -> {prefix, command, params}
ircLineRE(line) ==
    LET w1 == TakeWord(line)
        r1 == DropWord(line)
        a1 == SkipSpaces(r1)
        w2 == TakeWord(a1)
        withPrefix == /\ Len(w1) >= 2
                      /\ w1[1] = ":"
                      /\ r1 # <<>>
                      /\ w2 # <<>>
    IN  IF w1 = <<>>
        THEN [matched |-> FALSE, prefix |-> <<>>, command |-> <<>>,
              params |-> <<>>]
        ELSE IF withPrefix
        THEN [matched |-> TRUE, prefix |-> w1, command |-> w2,
              params |-> SkipSpaces(DropWord(a1))]
        ELSE [matched |-> TRUE, prefix |-> <<>>, command |-> w1,
              params |-> a1]

----------------------------------------------------------------------------
(* Lines of the relay protocol                                             *)

NickMsg == <<"NICK", " ", Nick>>
UserMsg == <<"USER", " ", Nick, " ", "0", " ", "*", " ", ":", Nick>>
JoinMsg == <<"JOIN", " ", Channel>>
\* TopicMsg that writes the first summary again
TopicMsgFixed(msg) == <<"TOPIC", " ", Channel, " ", ":">> \o <<"s1">>
TopicMsg(msg) == <<"TOPIC", " ", Channel, " ", ":">> \o msg
PongMsgFixed(params) == <<"PONG", " ", ":", "srv">>
PongMsg(params) == <<"PONG", " ">> \o params

Line001 == <<":", "srv", " ", "001", " ", Nick, " ", ":", "Welcome">>
Line433 == <<":", "srv", " ", "433", " ", "*", " ", Nick, " ", ":", "inuse">>
LineJoin == <<":", Nick, "!", "u@h", " ", "JOIN", " ", ":", Channel>>
LinePing == <<"PING", " ", ":", "abc">>

\* The lines the remote server sends.
InboundLines == {Line001, Line433, LineJoin, LinePing}

\* More of what a server may send: 442 for us, for another nick, for
\* another channel, for a channel whose name ours begins; JOIN by another
\* nick, by us to another channel, by us to a channel whose name ours
\* begins; a 001 without a prefix; a banner; a NOTICE; a line that begins
\* with white space; a PING with a prefix and wide white space.
Line442 ==
    <<":", "srv", " ", "442", " ", Nick, " ", Channel, " ", ":", "notonchan">>
Line442Nick ==
    <<":", "srv", " ", "442", " ", "other", " ", Channel, " ", ":",
      "notonchan">>
Line442Chan ==
    <<":", "srv", " ", "442", " ", Nick, " ", "#other", " ", ":",
      "notonchan">>
Line442Longer ==
    <<":", "srv", " ", "442", " ", Nick, " ", Channel, "2", " ", ":",
      "notonchan">>
LineJoinNick == <<":", "other", "!", "u@h", " ", "JOIN", " ", ":", Channel>>
LineJoinChan == <<":", Nick, "!", "u@h", " ", "JOIN", " ", ":", "#other">>
LineJoinLonger ==
    <<":", Nick, "!", "u@h", " ", "JOIN", " ", ":", Channel, "2">>
Line001Bare == <<"001", " ", Nick>>
LineBanner == <<":", "srv", " ", "002", " ", Nick, " ", ":", "Yourhost">>
LineNotice == <<":", "srv", " ", "NOTICE", " ", "001", " ", ":", "hi">>
LineIndented == <<" ", "PING", " ", ":", "abc">>
LinePingWide == <<":", "srv", " ", "PING", " ", " ", "x", " ", "y">>

\* The lines of the dispatch specification.
DispatchLines ==
    InboundLines \cup
    {Line442, Line442Nick, Line442Chan, Line442Longer, LineJoinNick,
     LineJoinChan, LineJoinLonger, Line001Bare, LineBanner, LineNotice,
     LineIndented, LinePingWide}

\* ircLineRE.FindStringSubmatch of every line, computed once.
ircLineMatches == [line \in DispatchLines |-> ircLineRE(line)]

IsTopic(line) == line # NoLine /\ Head(line) = "TOPIC"
IsPong(line) == line # NoLine /\ Head(line) = "PONG"


\* The registration commands, in the order IRCBot sends them.
Registration == <<NickMsg, UserMsg, JoinMsg>>

\* What `wire` keeps: the first Len(Registration) lines written.
Log(w, line) == IF Len(w) < Len(Registration) THEN Append(w, line) ELSE w

----------------------------------------------------------------------------
(* ircNextBackoff(delay, max), with r the value of rand.Float64()          *)

ircNextBackoffNoCap(delay, max, r) ==
    delay + ((delay * (r[2] + 2 * r[1])) \div (2 * r[2]))

ircNextBackoffSame(delay, max, r) == delay

ircNextBackoff(delay, max, r) ==
    LET n == r[1]
        d == r[2]
        \* time.Duration(float64(delay) * (0.5 + n/d)), truncated
        grown == delay + ((delay * (d + 2 * n)) \div (2 * d))
    IN  IF grown <= max THEN grown ELSE max

----------------------------------------------------------------------------
(* IRCBot                                                                  *)

\* A line that IRCBot will never read: its text no longer matters.
DeadLine == <<"(dead)">>

\* The buffer of a lineChan that IRCBot has left behind (`continue
\* ConnectLoop` or return): as long as before, never read again.
RECURSIVE Abandoned(_)
Abandoned(q) ==
    IF q = <<>> THEN <<>> ELSE <<DeadLine>> \o Abandoned(Tail(q))

\* `case <-ctx.Done()` is ready
CtxDoneNever == FALSE
CtxDoneAlways == TRUE
CtxDone == cancelled

\* conn.Close()
CloseConn ==
    /\ openTransports' = openTransports - 1
    /\ rconn' = FALSE

\* LoopTop that forgets the connection without closing it
LoopTopNoClose ==
    /\ pc = "top"
    /\ conn' = "nil"
    /\ pc' = "sleep"
    /\ lastOut' = NoLine
    /\ sendErr' = FALSE
    /\ wire' = <<>>
    /\ got001' = FALSE
    /\ gotJoin' = FALSE
    /\ spawned' = FALSE
    /\ UNCHANGED <<openTransports, rconn, err, connDelay, registered,
                   joined, lineChan, lineChanClosed, reader, slept,
                   sleptLess, cancelled, reportChan, pipeVars>>

\* ConnectLoop top, lines 57-64: close the connection an error handler left
LoopTop ==
    /\ pc = "top"
    /\ IF conn # "nil"
       THEN CloseConn /\ conn' = "nil"
       ELSE UNCHANGED <<openTransports, rconn, conn>>
    /\ pc' = "sleep"
    /\ lastOut' = NoLine
    /\ sendErr' = FALSE
    \* there is no current transport any more
    /\ wire' = <<>>
    /\ got001' = FALSE
    /\ gotJoin' = FALSE
    /\ spawned' = FALSE
    /\ UNCHANGED <<err, connDelay, registered, joined, lineChan,
                   lineChanClosed, reader, slept, sleptLess, cancelled,
                   reportChan, pipeVars>>

\* line 67: time.Sleep(connDelay) returns after the whole delay
Sleep ==
    /\ pc = "sleep"
    /\ pc' = "select"
    /\ sleptLess' = (slept # 0 /\ connDelay < slept)
    /\ slept' = connDelay
    /\ lastOut' = NoLine
    /\ sendErr' = FALSE
    /\ UNCHANGED <<conn, err, connDelay, registered, joined, lineChan,
                   lineChanClosed, reader, rconn, openTransports, wire,
                   got001, gotJoin, spawned, cancelled, reportChan,
                   pipeVars>>

\* lines 70-74: shutdown requested, not connected
SelectShutdown ==
    /\ pc = "select"
    /\ CtxDone
    /\ pc' = "done"
    /\ lastOut' = NoLine
    /\ sendErr' = FALSE
    /\ UNCHANGED <<conn, err, connDelay, registered, joined, lineChan,
                   lineChanClosed, reader, rconn, openTransports, wire,
                   got001, gotJoin, spawned, slept, sleptLess, cancelled, reportChan, pipeVars>>

\* DialFail that dials again at once
DialFailRedial(r) ==
    /\ pc = "select"
    /\ ~CtxDone
    /\ err' = "err"
    /\ conn' = "nil"
    /\ connDelay' = ircNextBackoff(connDelay, maxDelay, r)
    /\ pc' = "select"
    /\ lastOut' = NoLine
    /\ sendErr' = FALSE
    /\ UNCHANGED <<registered, joined, lineChan, lineChanClosed, reader,
                   rconn, openTransports, wire, got001, gotJoin, spawned,
                   slept, sleptLess, cancelled, reportChan,
                   pipeVars>>

\* lines 75-85: net.Dial fails
DialFail(r) ==
    /\ pc = "select"
    /\ ~CtxDone
    /\ err' = "err"
    /\ conn' = "nil"
    /\ connDelay' = ircNextBackoff(connDelay, maxDelay, r)
    /\ pc' = "top"
    /\ lastOut' = NoLine
    /\ sendErr' = FALSE
    /\ UNCHANGED <<registered, joined, lineChan, lineChanClosed, reader,
                   rconn, openTransports, wire, got001, gotJoin, spawned,
                   slept, sleptLess, cancelled, reportChan,
                   pipeVars>>

\* lines 75-78, 86: net.Dial succeeds
DialOK ==
    /\ pc = "select"
    /\ ~CtxDone
    /\ err' = "nil"
    /\ conn' = "conn"
    /\ openTransports' = openTransports + 1
    /\ connDelay' = baseDelay
    /\ pc' = "nick"
    /\ lastOut' = NoLine
    /\ sendErr' = FALSE
    /\ UNCHANGED <<registered, joined, lineChan, lineChanClosed, reader,
                   rconn, wire, got001, gotJoin, spawned, slept, sleptLess,
                   cancelled, reportChan, pipeVars>>

\* where a registration command's `continue ConnectLoop` leads
OnSendErrorIgnored(next) == next
OnSendError(next) == "top"

\* lines 90-98: one registration command; ok is ircSend's outcome
SendCmd(at, msg, next, ok) ==
    /\ pc = at
    /\ sendErr' = ~ok
    /\ IF ok
       THEN /\ err' = "nil"
            /\ wire' = Log(wire, msg)
            /\ lastOut' = msg
            /\ pc' = next
       ELSE /\ err' = "err"
            /\ wire' = wire
            /\ lastOut' = NoLine
            /\ pc' = OnSendError(next)
    /\ UNCHANGED <<conn, connDelay, registered, joined, lineChan,
                   lineChanClosed, reader, rconn, openTransports, got001,
                   gotJoin, spawned, slept, sleptLess,
                   cancelled, reportChan, pipeVars>>

SendNickAsUser == \E ok \in BOOLEAN : SendCmd("nick", UserMsg, "user", ok)
SendNick == \E ok \in BOOLEAN : SendCmd("nick", NickMsg, "user", ok)
SendUser == \E ok \in BOOLEAN : SendCmd("user", UserMsg, "join", ok)
SendJoin == \E ok \in BOOLEAN : SendCmd("join", JoinMsg, "spawn", ok)

\* lines 101-125: new lineChan, start the reader, declare the session flags
SpawnWith(reg, jnd) ==
    /\ pc = "spawn"
    /\ lineChan' = <<>>
    /\ lineChanClosed' = FALSE
    /\ reader' = "scan"
    /\ rconn' = TRUE
    /\ spawned' = TRUE
    /\ registered' = reg
    /\ joined' = jnd
    /\ pc' = "input"
    /\ lastOut' = NoLine
    /\ sendErr' = FALSE
    /\ UNCHANGED <<conn, err, connDelay, openTransports, wire, got001,
                   gotJoin, slept, sleptLess, cancelled,
                   reportChan, pipeVars>>

SpawnStale == SpawnWith(registered, joined)

\* Spawn that goes on with the lineChan of the connection before
SpawnSameChan ==
    /\ pc = "spawn"
    /\ reader' = "scan"
    /\ rconn' = TRUE
    /\ spawned' = TRUE
    /\ registered' = FALSE
    /\ joined' = FALSE
    /\ pc' = "input"
    /\ lastOut' = NoLine
    /\ sendErr' = FALSE
    /\ UNCHANGED <<lineChan, lineChanClosed, conn, err, connDelay,
                   openTransports, wire, got001, gotJoin, slept, sleptLess,
                   cancelled, reportChan, pipeVars>>
Spawn == SpawnWith(FALSE, FALSE)

\* the shutdown case without its conn.Close()
BotCtxNoClose ==
    /\ pc = "input"
    /\ CtxDone
    /\ pc' = "done"
    /\ lastOut' = NoLine
    /\ sendErr' = FALSE
    /\ lineChan' = Abandoned(lineChan)
    /\ UNCHANGED <<conn, err, connDelay, registered, joined,
                   lineChanClosed, reader, rconn, openTransports, wire,
                   got001, gotJoin, spawned, slept, sleptLess, cancelled,
                   reportChan, pipeVars>>

\* lines 130-134: shutdown requested, connected
BotCtx ==
    /\ pc = "input"
    /\ CtxDone
    /\ CloseConn
    /\ pc' = "done"
    /\ lastOut' = NoLine
    /\ sendErr' = FALSE
    /\ lineChan' = Abandoned(lineChan)
    /\ UNCHANGED <<conn, err, connDelay, registered, joined,
                   lineChanClosed, reader, wire, got001, gotJoin, spawned,
                   slept, sleptLess, cancelled, reportChan, pipeVars>>

\* line 138: the condition for setting the topic
TopicAllowedEither(reg, jnd) == reg \/ jnd
TopicAllowed(reg, jnd) == reg /\ jnd

\* line 135: `case msg := <-in` is ready
InReadyWhenIdle == reportChan # <<>> /\ lineChan = <<>> /\ ~lineChanClosed
InReady == reportChan # <<>>

\* lines 135-143: a summary from the input channel; ok is ircSend's outcome
BotIn(ok) ==
    /\ pc = "input"
    /\ InReady
    /\ reportChan' = Tail(reportChan)
    /\ sendErr' = (TopicAllowed(registered, joined) /\ ~ok)
    /\ IF TopicAllowed(registered, joined)
       THEN IF ok
            THEN /\ lastOut' = TopicMsg(Head(reportChan))
                 /\ wire' = Log(wire, TopicMsg(Head(reportChan)))
                 /\ pc' = pc
                 /\ lineChan' = lineChan
            ELSE /\ lastOut' = NoLine
                 /\ wire' = wire
                 /\ pc' = "top"
                 /\ lineChan' = Abandoned(lineChan)
       ELSE /\ lastOut' = NoLine
            /\ wire' = wire
            /\ pc' = pc
            /\ lineChan' = lineChan
    /\ UNCHANGED <<conn, err, connDelay, registered, joined,
                   lineChanClosed, reader, rconn, openTransports, got001,
                   gotJoin, spawned, slept, sleptLess, cancelled, pipeVars>>

\* the closed lineChan taken for one more line to skip
BotLineEndStay ==
    /\ pc = "input"
    /\ lineChan = <<>>
    /\ lineChanClosed
    /\ lastOut' = NoLine
    /\ sendErr' = FALSE
    /\ UNCHANGED <<pc, conn, err, connDelay, registered, joined, lineChan,
                   lineChanClosed, reader, rconn, openTransports, wire,
                   got001, gotJoin, spawned, slept, sleptLess, cancelled,
                   reportChan, pipeVars>>

\* lines 144-149: lineChan is closed and drained
BotLineEnd ==
    /\ pc = "input"
    /\ lineChan = <<>>
    /\ lineChanClosed
    /\ pc' = "top"
    /\ lastOut' = NoLine
    /\ sendErr' = FALSE
    /\ UNCHANGED <<conn, err, connDelay, registered, joined, lineChan,
                   lineChanClosed, reader, rconn, openTransports, wire,
                   got001, gotJoin, spawned, slept, sleptLess, cancelled, reportChan, pipeVars>>

\* line 162: the commands that mark the session registered
WelcomeCommandsWide == {<<"001">>, <<"002">>}
WelcomeCommands == {<<"001">>}

\* lines 151-214: what one inbound line does.  r is rand.Float64().
Dispatch(line, reg, jnd, delay, r) ==
    LET m == ircLineMatches[line]
        same == [registered |-> reg, joined |-> jnd, connDelay |-> delay,
                 out |-> NoLine, reconnect |-> FALSE]
    IN  IF ~m.matched THEN same
        ELSE IF m.command \in WelcomeCommands
        THEN [same EXCEPT !.registered = TRUE]
        ELSE IF m.command = <<"433">>
        THEN [same EXCEPT !.connDelay = ircNextBackoff(delay, maxDelay, r),
                          !.reconnect = TRUE]
        ELSE IF m.command = <<"442">>
        THEN [same EXCEPT
                 !.reconnect = HasPrefix(m.params, <<Nick, " ", Channel>>)]
        ELSE IF m.command = <<"JOIN">>
        THEN [same EXCEPT
                 !.joined = \/ jnd
                            \/ /\ HasPrefix(m.prefix, <<":", Nick, "!">>)
                               /\ HasPrefix(m.params, <<":", Channel>>)]
        ELSE IF m.command = <<"PING">>
        THEN [same EXCEPT !.out = PongMsg(m.params)]
        ELSE same

\* lines 144-214: a line from lineChan; ok is the outcome of the PONG write
BotLine(r, ok) ==
    /\ pc = "input"
    /\ lineChan # <<>>
    /\ LET line == Head(lineChan)
           d == Dispatch(line, registered, joined, connDelay, r)
           m == ircLineMatches[line]
           written == IF ok THEN d.out ELSE NoLine
       IN  /\ lineChan' = IF d.reconnect THEN Abandoned(Tail(lineChan))
                        ELSE Tail(lineChan)
           /\ registered' = d.registered
           /\ joined' = d.joined
           /\ connDelay' = d.connDelay
           /\ pc' = IF d.reconnect THEN "top" ELSE pc
           /\ lastOut' = written
           /\ sendErr' = (d.out # NoLine /\ ~ok)
           /\ wire' = IF written # NoLine THEN Log(wire, written) ELSE wire
           /\ got001' = (got001 \/ (m.matched /\ m.command = <<"001">>))
           /\ gotJoin' = (gotJoin \/ (d.joined /\ ~joined))
           /\ slept' = IF d.joined THEN 0 ELSE slept
    /\ UNCHANGED <<conn, err, lineChanClosed, reader, rconn, openTransports,
                   spawned, sleptLess, cancelled, reportChan, pipeVars>>

----------------------------------------------------------------------------
(* The reader goroutine, lines 108-121                                     *)

readerFrame == <<pc, conn, err, connDelay, registered, joined,
                 openTransports, wire, lastOut, sendErr, got001, gotJoin, spawned,
                 slept, sleptLess, cancelled, reportChan,
                 pipeVars>>

\* scanner.Scan() returns a line of the server
ReaderScan ==
    /\ reader = "scan"
    /\ rconn
    /\ reader' = "send"
    /\ UNCHANGED <<lineChan, lineChanClosed, rconn>>
    /\ UNCHANGED readerFrame

\* `case lineChan <- scanner.Text()` (the text is drawn here)
ReaderSend(line) ==
    /\ reader = "send"
    /\ Len(lineChan) < LineChanCap
    /\ lineChan' = Append(lineChan, IF pc = "input" THEN line ELSE DeadLine)
    /\ reader' = "scan"
    /\ UNCHANGED <<lineChanClosed, rconn>>
    /\ UNCHANGED readerFrame

\* `case <-ctx.Done()`, then the deferred close(lineChan)
ReaderCtx ==
    /\ reader = "send"
    /\ CtxDone
    /\ reader' = "exit"
    /\ lineChanClosed' = TRUE
    /\ UNCHANGED <<lineChan, rconn>>
    /\ UNCHANGED readerFrame

\* scanner.Scan() returns false (end of stream, read error, closed
\* connection), then the deferred close(lineChan)
ReaderEnd ==
    /\ reader = "scan"
    /\ reader' = "exit"
    /\ lineChanClosed' = TRUE
    /\ UNCHANGED <<lineChan, rconn>>
    /\ UNCHANGED readerFrame

----------------------------------------------------------------------------
(* The environment of IRCBot                                               *)

\* cancel() of the context
Cancel ==
    /\ ~cancelled
    /\ cancelled' = TRUE
    /\ UNCHANGED <<botVars, reportChan, pipeVars>>

\* a producer submits a summary on the input channel
Submit(msg) ==
    /\ Len(reportChan) < ReportChanCap
    /\ reportChan' = Append(reportChan, msg)
    /\ UNCHANGED <<botVars, cancelled, pipeVars>>

----------------------------------------------------------------------------
(* Specification of IRCBot with its environment                            *)

\* A float64: a number, kept in hundredths, or NaN.
Float(v) == [nan |-> FALSE, v |-> v]
NaN == [nan |-> TRUE, v |-> 0]

\* The node addresses the gateway reports.
HubNodes == {"1", "2", "7"}

\* main.go lines 97-100 and 238-241: a node is a key of the map or not;
\* a new key gets the zero ReportHistory.
ZeroHistory ==
    [Reports |-> <<>>, MinTempF |-> Float(0), MaxTempF |-> Float(0)]
NoHistory == [exists |-> FALSE, h |-> ZeroHistory]
NoHistories == [n \in HubNodes |-> NoHistory]

\* main logged no warning for the latest line.
NoSkip == ""

\* The rows of the log files: node, timestamp in hours, temperature.
LoadNodes == {"1"}
LoadTimes == {-30, -1}
LoadTemps == {Float(6400)}

\* Paths the patterns of serialFindPort match, logger.go line 290.
DevACM0 == "/dev/ttyACM0"
DevACM1 == "/dev/ttyACM1"
DevModem == "/dev/cu.usbmodem1"
DevPaths == {DevACM0, DevACM1, DevModem}
NoPort == ""

BotInit ==
    /\ pc = "top"
    /\ conn = "nil"
    /\ err = "nil"
    /\ connDelay = baseDelay
    /\ registered = FALSE
    /\ joined = FALSE
    /\ lineChan = <<>>
    /\ lineChanClosed = FALSE
    /\ reader = "none"
    /\ rconn = FALSE
    /\ openTransports = 0
    /\ wire = <<>>
    /\ lastOut = NoLine
    /\ sendErr = FALSE
    /\ got001 = FALSE
    /\ gotJoin = FALSE
    /\ spawned = FALSE
    /\ slept = 0
    /\ sleptLess = FALSE

PipeIdle ==
    /\ serialPc = "scan"
    /\ serialLine = NoLine
    /\ sensorChan = <<>>
    /\ mainPc = "recv"
    /\ mainSummary = NoLine
    /\ mainRecord = NoLine
    /\ sensorLogChan = <<>>
    /\ histories = NoHistories
    /\ now = 0
    /\ skipped = NoSkip
    /\ devs = {DevACM0}
    /\ port = DevACM0
    /\ serialOpen = TRUE

Init ==
    /\ BotInit
    /\ cancelled = FALSE
    /\ reportChan = <<>>
    /\ PipeIdle

BotNext ==
    \/ LoopTop
    \/ Sleep
    \/ SelectShutdown
    \/ \E r \in RandFloats : DialFail(r)
    \/ DialOK
    \/ SendNick
    \/ SendUser
    \/ SendJoin
    \/ Spawn
    \/ BotCtx
    \/ \E ok \in BOOLEAN : BotIn(ok)
    \/ BotLineEnd
    \/ \E r \in RandFloats, ok \in BOOLEAN : BotLine(r, ok)

ReaderNext ==
    \/ ReaderScan
    \/ \E line \in InboundLines : ReaderSend(line)
    \/ ReaderCtx
    \/ ReaderEnd

Next ==
    \/ BotNext
    \/ ReaderNext
    \/ Cancel
    \/ \E msg \in Summaries : Submit(msg)

Spec == Init /\ [][Next]_vars

\* IRCBot in a session with a server that is reachable and sends any of
\* DispatchLines, while shutdown is not requested.
DispatchNext ==
    \/ LoopTop
    \/ Sleep
    \/ DialOK
    \/ SendNick
    \/ SendUser
    \/ SendJoin
    \/ Spawn
    \/ \E ok \in BOOLEAN : BotIn(ok)
    \/ BotLineEnd
    \/ \E r \in RandFloats, ok \in BOOLEAN : BotLine(r, ok)
    \/ ReaderScan
    \/ \E line \in DispatchLines : ReaderSend(line)
    \/ ReaderEnd
    \/ \E msg \in Summaries : Submit(msg)

DispatchSpec == Init /\ [][DispatchNext]_vars

\* The lines whose handling ends a session or makes it a full one.
FailureLines == {Line001, LineJoin, Line433, Line442}

\* IRCBot with every way a connection attempt can fail, and shutdown.
FailureNext ==
    \/ BotNext
    \/ ReaderScan
    \/ \E line \in FailureLines : ReaderSend(line)
    \/ ReaderCtx
    \/ ReaderEnd
    \/ Cancel
    \/ \E msg \in Summaries : Submit(msg)

FailureSpec == Init /\ [][FailureNext]_vars

\* IRCBot with a server that is reachable: every dial succeeds.  (A failed
\* dial changes the delay and nothing else of a session.)
SessionNext ==
    \/ LoopTop
    \/ Sleep
    \/ SelectShutdown
    \/ DialOK
    \/ SendNick
    \/ SendUser
    \/ SendJoin
    \/ Spawn
    \/ BotCtx
    \/ \E ok \in BOOLEAN : BotIn(ok)
    \/ BotLineEnd
    \/ \E r \in RandFloats, ok \in BOOLEAN : BotLine(r, ok)
    \/ ReaderNext
    \/ Cancel
    \/ \E msg \in Summaries : Submit(msg)

\* The straight-line code of IRCBot outside the InputLoop select: at most
\* one of these steps is possible at a time, and the goroutine takes it.
BotStraight ==
    \/ LoopTop
    \/ Sleep
    \/ SelectShutdown
    \/ DialOK
    \/ SendNick
    \/ SendUser
    \/ SendJoin
    \/ Spawn

\* The `case line, ok := <-lineChan` of the InputLoop select.
BotLineCase ==
    \/ BotLineEnd
    \/ \E r \in RandFloats, ok \in BOOLEAN : BotLine(r, ok)

\* IRCBot at the start of the InputLoop of its first session: lines 57-125
\* have run once, the dial and the three writes succeeded and the reader
\* is started.
ReaderInit ==
    /\ pc = "input"
    /\ conn = "conn"
    /\ err = "nil"
    /\ connDelay = baseDelay
    /\ registered = FALSE
    /\ joined = FALSE
    /\ lineChan = <<>>
    /\ lineChanClosed = FALSE
    /\ reader = "scan"
    /\ rconn = TRUE
    /\ openTransports = 1
    /\ wire = Registration
    /\ lastOut = NoLine
    /\ sendErr = FALSE
    /\ got001 = FALSE
    /\ gotJoin = FALSE
    /\ spawned = TRUE
    /\ slept = baseDelay
    /\ sleptLess = FALSE
    /\ cancelled = FALSE
    /\ reportChan = <<>>
    /\ PipeIdle

\* What IRCBot does after a session when no dial succeeds any more: close
\* the connection, sleep, dial, fail.
BotRetry ==
    \/ LoopTop
    \/ Sleep
    \/ \E r \in RandFloats : DialFail(r)

\* The reader's steps that need nothing from the server: the send of a
\* line to a lineChan that has room, and the return of scanner.Scan() on
\* a closed connection.
ReaderStraight ==
    \/ \E line \in FailureLines : ReaderSend(line)
    \/ ReaderEnd /\ ~rconn

\* One session and what follows it while the server cannot be reached
\* again and shutdown is not requested.
OneSessionNext ==
    \/ BotRetry
    \/ \E ok \in BOOLEAN : BotIn(ok)
    \/ BotLineCase
    \/ ReaderScan
    \/ \E line \in FailureLines : ReaderSend(line)
    \/ ReaderEnd
    \/ \E msg \in Summaries : Submit(msg)

\* The goroutines of IRCBot are scheduled fairly: IRCBot itself, its select
\* among the ready cases, and the reader whenever its send or its Scan can
\* return.
FairReaderSpec ==
    /\ ReaderInit /\ [][OneSessionNext]_vars
    /\ WF_vars(BotRetry)
    /\ WF_vars(\E ok \in BOOLEAN : BotIn(ok))
    /\ WF_vars(BotLineCase)
    /\ WF_vars(ReaderStraight)

\* IRCBot keeps running, and its InputLoop select (lines 129-215) chooses
\* fairly among the cases that are ready: a case that stays ready is
\* chosen eventually.  The reader, the server and the producer are free.
FairSpec ==
    /\ Init /\ [][SessionNext]_vars
    /\ WF_vars(BotStraight)
    /\ WF_vars(BotCtx)
    /\ WF_vars(\E ok \in BOOLEAN : BotIn(ok))
    /\ WF_vars(BotLineCase)

----------------------------------------------------------------------------
(* The pipeline: serialMonitor -> sensorChan -> main -> reportChan and     *)
(* sensorLogChan.  The history store and the summary text are left out     *)
(* here: the summary main submits is any of Summaries.                     *)

SensorLine(tag, flag) ==
    <<tag, ":", " ", "-63", ",", " ", "0.0", ",", " ", "2", ",", " ",
      "38734b3c", ",", " ", "3.80", ",", " ", "64", ",", " ", flag>>

LineOK == SensorLine("ESPNOW", "OK")
LineDup == SensorLine("LORA", "DUP")
LineNoise == <<"Adafruit", " ", "CircuitPython">>

\* The lines the serial device prints.
DeviceLines == {LineOK, LineDup, LineNoise}

\* What strconv.ParseFloat makes of the texts it accepts; it accepts
\* "nan" in any case of letters.
FloatText ==
    [t \in {"-63", "0.0", "2", "3.80", "64", "70", "nan"} |->
        CASE t = "-63" -> Float(-6300)
          [] t = "0.0" -> Float(0)
          [] t = "2" -> Float(200)
          [] t = "3.80" -> Float(380)
          [] t = "64" -> Float(6400)
          [] t = "70" -> Float(7000)
          [] t = "nan" -> NaN]

\* The decimal numbers among the tokens.
Numerals == DOMAIN FloatText

\* strconv.ParseFloat(field, 64) returns no error
ParseFloatOK(field) == Len(field) = 1 /\ field[1] \in Numerals

\* serialMonitor's filter if it forwarded every line
SerialFilterAll(line) == TRUE

\* serialMonitor's filter, regexp "(LORA|ESPNOW): .*" (not anchored)
SerialFilter(line) ==
    \E i \in 1..Len(line) :
        /\ line[i] \in {"LORA", "ESPNOW"}
        /\ i + 2 <= Len(line)
        /\ line[i + 1] = ":"
        /\ line[i + 2] = " "

\* The text before the first comma.
RECURSIVE UpToComma(_)
UpToComma(s) ==
    IF s = <<>> \/ Head(s) = "," THEN <<>>
    ELSE <<Head(s)>> \o UpToComma(Tail(s))

\* The fields `([^,]+),\s*` cuts the text into.
RECURSIVE CommaFields(_)
CommaFields(s) ==
    LET f == UpToComma(s)
        rest == SubSeq(s, Len(f) + 1, Len(s))
    IN  IF rest = <<>> THEN <<f>>
        ELSE <<f>> \o CommaFields(SkipSpaces(Tail(rest)))

\* sensorReportRE, main.go lines 18-26: the tag and seven fields
sensorReportRE(line) ==
    LET tagged == /\ Len(line) >= 2
                  /\ line[1] \in {"ESPNOW", "LORA"}
                  /\ line[2] = ":"
        fields == IF tagged
                  THEN CommaFields(SkipSpaces(SubSeq(line, 3, Len(line))))
                  ELSE <<>>
    IN  [matched |-> /\ tagged
                     /\ Len(fields) >= 7
                     /\ \A i \in 1..7 : fields[i] # <<>>,
         fields |-> fields]

\* main.go lines 212-235: the line is a record main acts on
Accepted(line) ==
    LET m == sensorReportRE(line)
    IN  /\ m.matched
        /\ m.fields[7] = <<"OK">>
        /\ ParseFloatOK(m.fields[5])
        /\ ParseFloatOK(m.fields[6])

\* SkipReason without the test of the flag at line 222
SkipReasonNoFlag(line) ==
    LET m == sensorReportRE(line)
    IN  IF ~m.matched THEN "Bad report format"
        ELSE IF ~ParseFloatOK(m.fields[5]) THEN "Bad battery voltage"
        ELSE IF ~ParseFloatOK(m.fields[6]) THEN "Bad temperature F"
        ELSE NoSkip

\* SkipReason without the test of the temperature at line 232
SkipReasonNoTemp(line) ==
    LET m == sensorReportRE(line)
    IN  IF ~m.matched THEN "Bad report format"
        ELSE IF m.fields[7] # <<"OK">> THEN "Duplicate"
        ELSE IF ~ParseFloatOK(m.fields[5]) THEN "Bad battery voltage"
        ELSE NoSkip

\* main.go lines 212-235: the warning main logs when it skips the line
SkipReason(line) ==
    LET m == sensorReportRE(line)
    IN  IF ~m.matched THEN "Bad report format"
        ELSE IF m.fields[7] # <<"OK">> THEN "Duplicate"
        ELSE IF ~ParseFloatOK(m.fields[5]) THEN "Bad battery voltage"
        ELSE IF ~ParseFloatOK(m.fields[6]) THEN "Bad temperature F"
        ELSE NoSkip

\* The device lines main accepts, computed once.
AcceptedLines == {line \in DeviceLines : Accepted(line)}

\* logger.go lines 348-353: scanner.Scan() returns a line of the device
SerialScan(line) ==
    /\ serialPc = "scan"
    /\ IF SerialFilter(line)
       THEN serialPc' = "send" /\ serialLine' = line
       ELSE UNCHANGED <<serialPc, serialLine>>
    /\ UNCHANGED <<botVars, cancelled, reportChan, sensorChan, mainPc,
                   mainSummary, mainRecord, sensorLogChan, hubVars,
                   portVars>>

\* logger.go line 351: out <- line
SerialSend ==
    /\ serialPc = "send"
    /\ Len(sensorChan) < SensorChanCap
    /\ sensorChan' = Append(sensorChan, serialLine)
    /\ serialPc' = "scan"
    /\ serialLine' = NoLine
    /\ UNCHANGED <<botVars, cancelled, reportChan, mainPc, mainSummary,
                   mainRecord, sensorLogChan, hubVars, portVars>>

\* main.go lines 209-249: take a line; an accepted one yields a summary
MainRecv(summary) ==
    /\ mainPc = "recv"
    /\ sensorChan # <<>>
    /\ sensorChan' = Tail(sensorChan)
    /\ IF Head(sensorChan) \in AcceptedLines
       THEN /\ mainPc' = "sendReport"
            /\ mainSummary' = summary
            /\ mainRecord' = Head(sensorChan)
       ELSE UNCHANGED <<mainPc, mainSummary, mainRecord>>
    /\ UNCHANGED <<botVars, cancelled, reportChan, serialPc, serialLine,
                   sensorLogChan, hubVars, portVars>>

----------------------------------------------------------------------------
(* SerialConnect: discovery of the device, and the end of monitoring.      *)

\* filepath.Glob of the two patterns of logger.go lines 290-293
GlobACM(ds) == ds \cap {DevACM0, DevACM1}
GlobModem(ds) == ds \cap {DevModem}

\* serialFindPort that takes a match when there are several
serialFindPortAny(ds) ==
    LET possibles == GlobACM(ds) \cup GlobModem(ds)
    IN  IF possibles = {} THEN [port |-> NoPort, err |-> TRUE]
        ELSE [port |-> CHOOSE p \in possibles : TRUE, err |-> FALSE]

\* logger.go lines 289-309: the matches of both patterns are collected;
\* one match is the port, none or several are an error
serialFindPort(ds) ==
    LET possibles == GlobACM(ds) \cup GlobModem(ds)
        n == Cardinality(GlobACM(ds)) + Cardinality(GlobModem(ds))
    IN  IF n = 1
        THEN [port |-> CHOOSE p \in possibles : TRUE, err |-> FALSE]
        ELSE [port |-> NoPort, err |-> TRUE]

\* What the serial actions leave alone.
serialFrame ==
    <<botVars, cancelled, reportChan, serialLine, sensorChan, mainPc,
      mainSummary, mainRecord, sensorLogChan, hubVars>>

\* logger.go lines 366-372: SerialConnect looks for the port
SerialFind ==
    /\ serialPc = "find"
    /\ port' = serialFindPort(devs).port
    /\ serialPc' = IF serialFindPort(devs).err THEN "findSleep" ELSE "stty"
    /\ UNCHANGED <<serialFrame, devs, serialOpen>>

\* logger.go lines 370-371: time.Sleep(time.Second); continue
SerialFindSleep ==
    /\ serialPc = "findSleep"
    /\ serialPc' = "find"
    /\ UNCHANGED <<serialFrame, portVars>>

\* logger.go lines 336-339: serialSttyConfig(port); it fails when the
\* path is gone, and may fail otherwise
SerialStty(ok) ==
    /\ serialPc = "stty"
    /\ ok => port \in devs
    /\ serialPc' = IF ok THEN "open" ELSE "endSleep"
    /\ UNCHANGED <<serialFrame, portVars>>

\* logger.go lines 340-344: os.Open(port); defer f.Close()
SerialOpenFile(ok) ==
    /\ serialPc = "open"
    /\ ok => port \in devs
    /\ serialPc' = IF ok THEN "scan" ELSE "endSleep"
    /\ serialOpen' = ok
    /\ UNCHANGED <<serialFrame, devs, port>>

\* SerialScanEnd that leaves the file open
SerialScanEndLeak ==
    /\ serialPc = "scan"
    /\ serialPc' = "endSleep"
    /\ UNCHANGED <<serialFrame, portVars>>

\* logger.go lines 348, 354-359: scanner.Scan() returns false, on a read
\* error or at EOF; serialMonitor returns and the deferred Close runs
SerialScanEnd ==
    /\ serialPc = "scan"
    /\ serialPc' = "endSleep"
    /\ serialOpen' = FALSE
    /\ UNCHANGED <<serialFrame, devs, port>>

\* logger.go lines 374-379: the error is logged; time.Sleep(time.Second)
SerialEndSleep ==
    /\ serialPc = "endSleep"
    /\ serialPc' = "find"
    /\ UNCHANGED <<serialFrame, portVars>>

\* A device file appears under /dev.
Plug(p) ==
    /\ p \notin devs
    /\ devs' = devs \cup {p}
    /\ UNCHANGED <<serialFrame, serialPc, port, serialOpen>>

\* A device file goes away.
Unplug(p) ==
    /\ p \in devs
    /\ devs' = devs \ {p}
    /\ UNCHANGED <<serialFrame, serialPc, port, serialOpen>>

----------------------------------------------------------------------------
(* The history store (reports.go) and what main does with a record.        *)

\* strconv.ParseFloat(field, 64): the value; 0 comes with an error
ParseFloat(field) ==
    IF ParseFloatOK(field) THEN FloatText[field[1]] ELSE Float(0)

\* a < b on float64: false when either side is NaN
FloatLess(a, b) == ~a.nan /\ ~b.nan /\ a.v < b.v

\* reports.go line 35: the length of the window, in hours
Retention == 24

\* reports.go lines 36-39: the reports at the front that are older than
\* the cutoff; the loop stops at the first report that is not.
RECURSIVE PruneCount(_, _)
PruneCount(reports, cutoff) ==
    IF reports # <<>> /\ Head(reports).Timestamp < cutoff
    THEN 1 + PruneCount(Tail(reports), cutoff)
    ELSE 0

\* reports.go lines 51-60, the running minimum
RECURSIVE MinOver(_, _)
MinOver(min, reports) ==
    IF reports = <<>> THEN min
    ELSE MinOver(IF FloatLess(Head(reports).TempF, min)
                 THEN Head(reports).TempF ELSE min, Tail(reports))

\* reports.go lines 51-60, the running maximum
RECURSIVE MaxOver(_, _)
MaxOver(max, reports) ==
    IF reports = <<>> THEN max
    ELSE MaxOver(IF FloatLess(max, Head(reports).TempF)
                 THEN Head(reports).TempF ELSE max, Tail(reports))

\* Add with the new report put in front of the others
AddNewestFirst(h, timestamp, batteryV, tempF, clock) ==
    LET appended == <<[Timestamp |-> timestamp, TempF |-> tempF,
                       BatteryV |-> batteryV]>> \o h.Reports
        cutoff == clock - Retention
        i == PruneCount(appended, cutoff)
        kept == SubSeq(appended, i + 1, Len(appended))
    IN  IF kept = <<>>
        THEN [Reports |-> <<>>, MinTempF |-> Float(0),
              MaxTempF |-> Float(0)]
        ELSE [Reports |-> kept,
              MinTempF |-> MinOver(kept[1].TempF, Tail(kept)),
              MaxTempF |-> MaxOver(kept[1].TempF, Tail(kept))]

\* reports.go lines 25-62: ReportHistory.Add, when time.Now() reads clock
Add(h, timestamp, batteryV, tempF, clock) ==
    LET appended == h.Reports \o <<[Timestamp |-> timestamp,
                                    TempF |-> tempF,
                                    BatteryV |-> batteryV]>>
        cutoff == clock - Retention
        i == PruneCount(appended, cutoff)
        kept == SubSeq(appended, i + 1, Len(appended))
    IN  IF kept = <<>>
        THEN [Reports |-> <<>>, MinTempF |-> Float(0),
              MaxTempF |-> Float(0)]
        ELSE [Reports |-> kept,
              MinTempF |-> MinOver(kept[1].TempF, Tail(kept)),
              MaxTempF |-> MaxOver(kept[1].TempF, Tail(kept))]

\* AddTo that also prunes the histories of the other nodes
AddToPruneAll(hs, node, timestamp, batteryV, tempF, clock) ==
    [n \in HubNodes |->
        IF n = node
        THEN [exists |-> TRUE,
              h |-> Add(hs[n].h, timestamp, batteryV, tempF, clock)]
        ELSE [hs[n] EXCEPT !.h.Reports =
                 SubSeq(@, PruneCount(@, clock - Retention) + 1, Len(@))]]

\* main.go lines 97-104 and 238-246: make sure the node has a history,
\* then add the report to it
AddTo(hs, node, timestamp, batteryV, tempF, clock) ==
    [hs EXCEPT ![node] =
        [exists |-> TRUE,
         h |-> Add(hs[node].h, timestamp, batteryV, tempF, clock)]]

\* the `%.0f` of fmt.Sprintf: the nearest integer, ties to the even one
FormatF0(x) ==
    IF x.nan THEN <<"NaN">>
    ELSE LET a == IF x.v < 0 THEN 0 - x.v ELSE x.v
             q == a \div 100
             r == a % 100
             n == IF r > 50 \/ (r = 50 /\ q % 2 = 1) THEN q + 1 ELSE q
         IN  IF x.v < 0 THEN <<"-", ToString(n)>> ELSE <<ToString(n)>>

\* 100*last.BatteryV
Times100(x) == IF x.nan THEN NaN ELSE Float(100 * x.v)

\* main.go line 126: the layout "Jan02 15:04" leaves the year out
YearHours == 8760
FormatTimestamp(t) == <<"h", ToString(t % YearHours)>>

\* main.go lines 118-130: the part of the summary for one node
SummarySlot(hs, nodeID) ==
    IF ~hs[nodeID].exists \/ hs[nodeID].h.Reports = <<>>
    THEN <<"/--/--">>
    ELSE LET h == hs[nodeID].h
             last == h.Reports[Len(h.Reports)]
         IN  <<"/">> \o FormatF0(last.TempF) \o <<" ">>
                 \o FormatF0(Times100(last.BatteryV)) \o <<" ">>
                 \o FormatF0(h.MinTempF) \o <<" ">>
                 \o FormatF0(h.MaxTempF) \o <<"/", " ", " ", nodeID,
                                              " ", " ">>
                 \o FormatTimestamp(last.Timestamp)

\* FormatReportSummary with the two nodes in the other order
FormatReportSummarySwapped(hs) ==
    <<"!pre", " ">> \o SummarySlot(hs, "2") \o SummarySlot(hs, "1")

\* main.go lines 114-135
FormatReportSummary(hs) ==
    <<"!pre", " ">> \o SummarySlot(hs, "1") \o SummarySlot(hs, "2")

\* A line of the gateway: tag, RSSI, SNR, node, timestamp, battery,
\* temperature, flag (main.go lines 141-142).
HubLine(node, battery, temp, flag) ==
    <<"ESPNOW", ":", " ", "-63", ",", " ", "0.0", ",", " ", node, ",",
      " ", "38734b3c", ",", " ", battery, ",", " ", temp, ",", " ", flag>>

Line1Cool == HubLine("1", "3.80", "64", "OK")
Line1Warm == HubLine("1", "3.80", "70", "OK")
Line1WarmDup == HubLine("1", "3.80", "70", "DUP")
Line1NaN == HubLine("1", "3.80", "nan", "OK")
Line1BadBattery == HubLine("1", "low", "64", "OK")
Line2Warm == HubLine("2", "3.80", "70", "OK")
Line2Dup == HubLine("2", "3.80", "70", "DUP")
Line2BadTemp == HubLine("2", "3.80", "hot", "OK")
Line7Cool == HubLine("7", "3.80", "64", "OK")
LineShort == <<"LORA", ":", " ", "-63", ",", " ", "0.0">>

\* The lines main receives from sensorChan.
HubLines ==
    {Line1Cool, Line1Warm, Line1WarmDup, Line1NaN, Line1BadBattery,
     Line2Warm, Line2Dup, Line2BadTemp, Line7Cool, LineShort}

\* What main makes of each line, computed once.
HubParse ==
    [line \in HubLines |->
        LET m == sensorReportRE(line)
        IN  [skip |-> SkipReason(line),
             node |-> IF m.matched THEN Head(m.fields[3]) ELSE "",
             rssi |-> IF m.matched THEN m.fields[1] ELSE <<>>,
             snr |-> IF m.matched THEN m.fields[2] ELSE <<>>,
             batteryV |-> IF m.matched THEN ParseFloat(m.fields[5])
                          ELSE Float(0),
             tempF |-> IF m.matched THEN ParseFloat(m.fields[6])
                       ELSE Float(0)]]

\* The number of reports in all histories.
RECURSIVE TotalReports(_, _)
TotalReports(hs, nodes) ==
    IF nodes = {} THEN 0
    ELSE LET n == CHOOSE n \in nodes : TRUE
         IN  Len(hs[n].h.Reports) + TotalReports(hs, nodes \ {n})

\* main.go lines 68-105: ReadSensorLogHistory adds one row of a log file;
\* the timestamp is the one written in the row.
LoadRecord(node, timestamp, tempF) ==
    /\ mainPc = "load"
    /\ TotalReports(histories, HubNodes) < MaxLoaded
    /\ histories' = AddTo(histories, node, timestamp, Float(380), tempF,
                          now)
    /\ UNCHANGED <<botVars, cancelled, reportChan, serialPc, serialLine,
                   sensorChan, mainPc, mainSummary, mainRecord,
                   sensorLogChan, now, skipped, portVars>>

\* main.go lines 193-206: the summary of the loaded histories is
\* submitted if the map has a key, and the loop over sensorChan starts
MainStart ==
    /\ mainPc = "load"
    /\ mainPc' = "recv"
    /\ IF \E n \in HubNodes : histories[n].exists
       THEN reportChan' = Append(reportChan, FormatReportSummary(histories))
       ELSE UNCHANGED reportChan
    /\ UNCHANGED <<botVars, cancelled, serialPc, serialLine, sensorChan,
                   mainSummary, mainRecord, sensorLogChan, hubVars,
                   portVars>>

\* HubRecv with the summary formed before the record is added
HubRecvSummaryFirst(line) ==
    /\ mainPc = "recv"
    /\ IF HubParse[line].skip = NoSkip
       THEN LET m == HubParse[line]
                timestamp == now
            IN  /\ TotalReports(histories, HubNodes) < MaxReports
                /\ histories' = AddTo(histories, m.node, timestamp,
                                      m.batteryV, m.tempF, now)
                /\ mainSummary' = FormatReportSummary(histories)
                /\ mainRecord' = [Timestamp |-> timestamp, Node |-> m.node,
                                  RSSI |-> m.rssi, SNR |-> m.snr,
                                  BatteryV |-> m.batteryV, TempF |-> m.tempF]
                /\ mainPc' = "sendReport"
       ELSE UNCHANGED <<histories, mainSummary, mainRecord, mainPc>>
    /\ skipped' = HubParse[line].skip
    /\ UNCHANGED <<botVars, cancelled, reportChan, serialPc, serialLine,
                   sensorChan, sensorLogChan, now, portVars>>

\* main.go lines 209-249: main takes `line` from sensorChan; an accepted
\* record is added to its node's history and the summary is formed
HubRecv(line) ==
    /\ mainPc = "recv"
    /\ IF HubParse[line].skip = NoSkip
       THEN LET m == HubParse[line]
                timestamp == now
            IN  /\ TotalReports(histories, HubNodes) < MaxReports
                /\ histories' = AddTo(histories, m.node, timestamp,
                                      m.batteryV, m.tempF, now)
                /\ mainSummary' = FormatReportSummary(histories')
                /\ mainRecord' = [Timestamp |-> timestamp, Node |-> m.node,
                                  RSSI |-> m.rssi, SNR |-> m.snr,
                                  BatteryV |-> m.batteryV, TempF |-> m.tempF]
                /\ mainPc' = "sendReport"
       ELSE UNCHANGED <<histories, mainSummary, mainRecord, mainPc>>
    /\ skipped' = HubParse[line].skip
    /\ UNCHANGED <<botVars, cancelled, reportChan, serialPc, serialLine,
                   sensorChan, sensorLogChan, now, portVars>>

\* irc.go line 135, seen from main: IRCBot takes a summary from reportChan
ReportTaken ==
    /\ reportChan # <<>>
    /\ reportChan' = Tail(reportChan)
    /\ UNCHANGED <<botVars, cancelled, pipeVars>>

\* The clock advances by this many hours: two steps leave the window.
TickHours == Retention \div 2 + 1

\* Time passes; main reads the clock at the top of an iteration and in
\* Add, so the clock is advanced between iterations.
Tick ==
    /\ mainPc \in {"load", "recv"}
    /\ now + TickHours <= MaxClock
    /\ now' = now + TickHours
    /\ UNCHANGED <<botVars, cancelled, reportChan, serialPc, serialLine,
                   sensorChan, mainPc, mainSummary, mainRecord,
                   sensorLogChan, histories, skipped, portVars>>

\* main.go line 250: reportChan <- summary
MainSendReport ==
    /\ mainPc = "sendReport"
    /\ Len(reportChan) < ReportChanCap
    /\ reportChan' = Append(reportChan, mainSummary)
    /\ mainPc' = "sendLog"
    /\ mainSummary' = NoLine
    /\ UNCHANGED <<botVars, cancelled, serialPc, serialLine, sensorChan,
                   mainRecord, sensorLogChan, hubVars, portVars>>

\* MainSendLog that goes on without sending the record
MainSendLogSkip ==
    /\ mainPc = "sendLog"
    /\ mainPc' = "recv"
    /\ mainRecord' = NoLine
    /\ UNCHANGED <<botVars, cancelled, reportChan, serialPc, serialLine,
                   sensorChan, mainSummary, sensorLogChan, hubVars,
                   portVars>>

\* main.go lines 253-261: sensorLogChan <- sensorData
MainSendLog ==
    /\ mainPc = "sendLog"
    /\ Len(sensorLogChan) < SensorLogChanCap
    /\ sensorLogChan' = Append(sensorLogChan, mainRecord)
    /\ mainPc' = "recv"
    /\ mainRecord' = NoLine
    /\ UNCHANGED <<botVars, cancelled, reportChan, serialPc, serialLine,
                   sensorChan, mainSummary, hubVars, portVars>>

\* logger.go lines 104-144: StartLogger takes a record and writes it
LoggerWrite ==
    /\ sensorLogChan # <<>>
    /\ sensorLogChan' = Tail(sensorLogChan)
    /\ UNCHANGED <<botVars, cancelled, reportChan, serialPc, serialLine,
                   sensorChan, mainPc, mainSummary, mainRecord, hubVars,
                   portVars>>

\* main.go lines 196-202: the summary of the loaded history, if there is one
PipeInit ==
    /\ BotInit
    /\ cancelled = FALSE
    /\ reportChan \in {<<>>} \cup {<<m>> : m \in Summaries}
    /\ PipeIdle

\* IRCBot in the running program: cancel() is deferred to the return of
\* main, which its loop over sensorChan never reaches.  The remote server
\* takes connections or not, and may end the stream; it sends no lines.
PipeBotNext ==
    \/ LoopTop
    \/ Sleep
    \/ \E r \in RandFloats : DialFail(r)
    \/ DialOK
    \/ SendNick
    \/ SendUser
    \/ SendJoin
    \/ Spawn
    \/ \E ok \in BOOLEAN : BotIn(ok)
    \/ BotLineEnd

SerialNext ==
    \/ \E line \in DeviceLines : SerialScan(line)
    \/ SerialSend

MainNext ==
    \/ \E summary \in Summaries : MainRecv(summary)
    \/ MainSendReport
    \/ MainSendLog

PipeNext ==
    \/ PipeBotNext
    \/ ReaderEnd
    \/ SerialNext
    \/ MainNext
    \/ LoggerWrite

PipeSpec == PipeInit /\ [][PipeNext]_vars

\* The running program after StartLogger has returned at logger.go lines
\* 93-101, before its loop (getSensorLogDir or os.MkdirAll failed):
\* nothing receives from sensorLogChan.
LoggerGoneNext ==
    \/ PipeBotNext
    \/ ReaderEnd
    \/ SerialNext
    \/ MainNext

\* The goroutines that are left are scheduled fairly.
FairLoggerGoneSpec ==
    /\ PipeInit /\ [][LoggerGoneNext]_vars
    /\ WF_vars(PipeBotNext)
    /\ WF_vars(SerialSend)
    /\ WF_vars(MainNext)

\* A line with the tag in the middle.
LineTagInside == <<"boot", " ", "LORA", ":", " ", "ready">>

\* The lines the device prints under SerialConnect.
SerialLines == DeviceLines \cup {LineTagInside}

\* SerialConnect from its start, with the device plugged in at one path;
\* main, IRCBot and StartLogger take what is sent to them.
SerialInit ==
    /\ BotInit
    /\ cancelled = FALSE
    /\ reportChan = <<>>
    /\ serialPc = "find"
    /\ serialLine = NoLine
    /\ sensorChan = <<>>
    /\ mainPc = "recv"
    /\ mainSummary = NoLine
    /\ mainRecord = NoLine
    /\ sensorLogChan = <<>>
    /\ histories = NoHistories
    /\ now = 0
    /\ skipped = NoSkip
    /\ devs = {DevACM0}
    /\ port = NoPort
    /\ serialOpen = FALSE

\* The steps of SerialConnect that wait for nothing but the delay.
SerialStraight ==
    \/ SerialFind
    \/ SerialFindSleep
    \/ \E ok \in BOOLEAN : SerialStty(ok)
    \/ \E ok \in BOOLEAN : SerialOpenFile(ok)
    \/ SerialEndSleep

SerialConnectNext ==
    \/ SerialStraight
    \/ \E line \in SerialLines : SerialScan(line)
    \/ SerialSend
    \/ SerialScanEnd
    \/ \E p \in DevPaths : Plug(p)
    \/ \E p \in DevPaths : Unplug(p)
    \/ MainRecv(<<"s1">>)
    \/ MainSendReport
    \/ MainSendLog
    \/ ReportTaken
    \/ LoggerWrite

SerialSpec == SerialInit /\ [][SerialConnectNext]_vars

\* The goroutine of SerialConnect keeps running.
FairSerialSpec == SerialSpec /\ WF_vars(SerialStraight)

\* main from its start: the log files are loaded, then main works through
\* the lines of sensorChan while time passes; IRCBot and StartLogger take
\* what main sends them.
HubInit ==
    /\ BotInit
    /\ cancelled = FALSE
    /\ reportChan = <<>>
    /\ serialPc = "scan"
    /\ serialLine = NoLine
    /\ sensorChan = <<>>
    /\ mainPc = "load"
    /\ mainSummary = NoLine
    /\ mainRecord = NoLine
    /\ sensorLogChan = <<>>
    /\ histories = NoHistories
    /\ now = 0
    /\ skipped = NoSkip
    /\ devs = {DevACM0}
    /\ port = DevACM0
    /\ serialOpen = TRUE

HubNext ==
    \/ \E node \in LoadNodes, timestamp \in LoadTimes, tempF \in LoadTemps :
           LoadRecord(node, timestamp, tempF)
    \/ MainStart
    \/ \E line \in HubLines : HubRecv(line)
    \/ MainSendReport
    \/ MainSendLog
    \/ ReportTaken
    \/ LoggerWrite
    \/ Tick

HubSpec == HubInit /\ [][HubNext]_vars

\* Every goroutine that can take a step eventually takes one; what the
\* device and the remote server do is left open.
FairPipeSpec ==
    /\ PipeSpec
    /\ WF_vars(PipeBotNext)
    /\ WF_vars(SerialSend)
    /\ WF_vars(MainNext)
    /\ WF_vars(LoggerWrite)

----------------------------------------------------------------------------
(* Claims about IRCBot                                                     *)

\* The step in which IRCBot takes a summary from its input channel.
TakesSummary == pc = "input" /\ Len(reportChan') < Len(reportChan)

\* C2: a TOPIC line is written only when registered and joined are both
\* true; a summary taken while either is false is dropped: nothing is
\* written and nothing else of IRCBot's state changes.
C2_TopicOnlyWhenReady ==
    /\ [](IsTopic(lastOut) => (registered /\ joined))
    /\ [][(TakesSummary /\ ~(registered /\ joined))
            => /\ lastOut' = NoLine
               /\ UNCHANGED <<pc, conn, err, connDelay, registered, joined,
                              lineChan, lineChanClosed, reader, rconn,
                              openTransports, wire>>]_vars

C2_Witness == IsTopic(lastOut) /\ registered /\ joined /\ pc = "input"

\* C3: every session starts with registered and joined false, whatever they
\* were in the session before, so that a flag is true only after its line
\* (001, our JOIN) was dispatched on the current transport, and a TOPIC is
\* written only after both were.
C3_FlagsFreshPerSession ==
    /\ [](pc = "input" => ((registered => got001) /\ (joined => gotJoin)))
    /\ [](IsTopic(lastOut) => (got001 /\ gotJoin))
    /\ [][(pc # "input" /\ pc' = "input")
            => (~registered' /\ ~joined')]_vars

\* the flags of the previous session are still true when a new session is
\* about to start
C3_Witness == pc = "spawn" /\ registered /\ joined

\* C4: the first three lines written on a transport are NICK, USER, JOIN in
\* this order, written before any inbound line is dispatched and before
\* any TOPIC or PONG.
C4_RegistrationFirst ==
    LET expected == << <<"NICK", " ", Nick>>,
                       <<"USER", " ", Nick, " ", "0", " ", "*", " ", ":",
                         Nick>>,
                       <<"JOIN", " ", Channel>> >>
    IN  /\ HasPrefix(expected, wire)
        /\ (pc \in {"spawn", "input"} => wire = expected)
        /\ ((got001 \/ gotJoin) => wire = expected)
        /\ ((IsTopic(lastOut) \/ IsPong(lastOut)) => wire = expected)

C4_Witness == pc = "input" /\ IsPong(lastOut) /\ Len(wire) = 3

\* C5: when a registration command cannot be sent the attempt is aborted:
\* IRCBot goes to the top of ConnectLoop having written no further line,
\* no reader is started for the transport, no inbound line is dispatched,
\* and the next step of IRCBot closes the transport.
C5_HandshakeAbort ==
    /\ []((pc = "top" /\ conn = "conn" /\ err = "err")
            => /\ Len(wire) < 3
               /\ ~spawned
               /\ ~got001 /\ ~gotJoin
               /\ lastOut = NoLine)
    /\ [][(pc \in {"nick", "user", "join"} /\ err = "nil" /\ err' = "err")
            => /\ pc' = "top"
               /\ UNCHANGED <<wire, conn, reader, lineChan, registered,
                              joined, spawned>>]_vars
    /\ [][(pc = "top" /\ conn = "conn" /\ pc' # "top")
            => (pc' = "sleep" /\ conn' = "nil" /\ openTransports' = 0
                /\ lastOut' = NoLine)]_vars

\* the USER command failed after NICK was written
C5_Witness ==
    pc = "top" /\ conn = "conn" /\ err = "err" /\ Len(wire) = 1

\* C6: a failed dial with delay d leaves the delay min(10 min, d + f*d) with
\* f in [0.5, 1.5) (the product converted to a whole Duration), and the
\* delay is always between 3 s and 10 min.
C6_BackoffStep ==
    /\ [](3000 <= connDelay /\ connDelay <= 600000)
    /\ [][(pc = "select" /\ pc' = "top")
            => LET d == connDelay
                   n == connDelay'
               IN  /\ n < 600000 => (n >= d + (d \div 2) /\ 2 * n < 5 * d)
                   /\ n = 600000 => 5 * d > 2 * 600000]_vars

\* the ceiling was reached by failed dials
C6_Witness == pc = "top" /\ conn = "nil" /\ connDelay = 600000

\* C7: of two consecutive attempts that both end without reaching the
\* joined state, the later one slept at least as long as the earlier one.
C7_BackoffMonotone == (pc = "top" /\ slept # 0) => ~sleptLess

\* C8: the delay goes back to the seed only when the attempt is registered
\* and joined.
C8_ResetOnlyWhenRegistered ==
    [][(connDelay # baseDelay /\ connDelay' = baseDelay)
         => (got001' /\ gotJoin')]_vars

\* C9: once cancellation is requested IRCBot dials no more: the step it
\* takes at the connect-or-shutdown select is its return, and it returns
\* there with every transport it opened closed.
C9_NoDialAfterCancel ==
    /\ [][(cancelled /\ pc = "select") => pc' \in {"select", "done"}]_vars
    /\ [][cancelled => openTransports' <= openTransports]_vars
    /\ []((pc = "done" /\ conn = "nil") => openTransports = 0)

\* returned on the not-connected path after an earlier session
C9_Witness == pc = "done" /\ conn = "nil" /\ reader = "exit" /\ cancelled

\* C10: shutdown requested while IRCBot sleeps out the backoff delay makes
\* it return at once: its next step is the return, not the end of the sleep.
C10_ReturnsWithoutSleeping ==
    [][(cancelled /\ pc = "sleep") => pc' \in {"sleep", "done"}]_vars

\* C11: shutdown requested while a session is connected makes IRCBot, under
\* a fair select, close the transport and return, however many lines and
\* summaries keep arriving; and no transport is opened after the request.
C11_ConnectedShutdown ==
    /\ (cancelled /\ pc = "input") ~> (pc = "done" /\ openTransports = 0)
    /\ [][(cancelled /\ conn = "nil") => conn' = "nil"]_vars

\* returned from the InputLoop with a line and a summary still waiting
C11_Witness ==
    /\ pc = "done" /\ conn = "conn" /\ cancelled
    /\ lineChan # <<>> /\ reportChan # <<>>

\* The step in which IRCBot takes a line from lineChan.
TakesLine == pc = "input" /\ Len(lineChan') < Len(lineChan)

\* A step of IRCBot: it moves on, takes a line or takes a summary.
BotStep == pc' # pc \/ TakesLine \/ TakesSummary

\* The PONG line each PING line of DispatchLines asks for.
ExpectedPong ==
    [line \in {LinePing, LinePingWide} |->
        IF line = LinePing THEN <<"PONG", " ", ":", "abc">>
        ELSE <<"PONG", " ", "x", " ", "y">>]

\* C12: a PING line makes IRCBot write PONG with the same parameter text,
\* in the step that takes the line, and nothing but a PING line makes it
\* write PONG; registered, joined, the delay and the session stay as they
\* are.  (When the write returns an error nothing is written.)
C12_PingPong ==
    /\ [][(TakesLine /\ Head(lineChan) \in DOMAIN ExpectedPong)
             => /\ lastOut' = IF sendErr' THEN NoLine
                              ELSE ExpectedPong[Head(lineChan)]
                /\ UNCHANGED <<pc, conn, registered, joined, connDelay,
                               openTransports>>]_vars
    /\ [][(BotStep /\ IsPong(lastOut'))
             => (TakesLine /\ Head(lineChan) \in DOMAIN ExpectedPong)]_vars

C12_Witness == pc = "input" /\ lastOut = <<"PONG", " ", "x", " ", "y">>

\* C13: a 433 line grows the delay to between 1.5 and 2.5 times what it
\* was and sends IRCBot to the top of ConnectLoop with nothing written;
\* there nothing is written any more, the next step closes the transport,
\* and the next transport is greeted with the same NICK line.
C13_NickInUse ==
    /\ [][(TakesLine /\ Head(lineChan) = Line433)
             => /\ 2 * connDelay' >= 3 * connDelay
                /\ 2 * connDelay' < 5 * connDelay
                /\ pc' = "top"
                /\ lastOut' = NoLine
                /\ UNCHANGED <<wire, conn, openTransports>>]_vars
    /\ [][pc = "top" => lastOut' = NoLine]_vars
    /\ [][(pc = "top" /\ conn = "conn" /\ connDelay # 3000 /\ pc' # "top")
             => (conn' = "nil" /\ openTransports' = 0 /\ pc' = "sleep")]_vars
    /\ [](Len(wire) >= 1 => wire[1] = <<"NICK", " ", "bot">>)

\* a 433 ended the session: the delay has grown with the transport still
\* to be closed
C13_Witness == pc = "top" /\ conn = "conn" /\ connDelay > 3000

\* C14: a 442 line makes IRCBot reconnect exactly when it names our nick
\* and our channel; a 442 naming another nick or another channel leaves
\* the session connected with registered and joined as they are.
C14_NotOnChannel ==
    [][(TakesLine /\ Head(lineChan) \in {Line442, Line442Nick, Line442Chan,
                                          Line442Longer})
         => IF Head(lineChan) = Line442
            THEN pc' = "top"
            ELSE pc' = "input" /\ UNCHANGED <<registered, joined>>]_vars

\* C15: joined becomes true only on a JOIN line of our nick for our
\* channel.
C15_JoinedOnlyOnOurJoin ==
    [][(~joined /\ joined') => (TakesLine /\ Head(lineChan) = LineJoin)]_vars

\* C16: registered becomes true on a line whose command is 001 and on no
\* other step, and while IRCBot stays in one InputLoop neither registered
\* nor joined goes back from true to false.
C16_RegisteredOn001 ==
    /\ [][(~registered /\ registered')
             => (TakesLine /\ Head(lineChan) \in {Line001, Line001Bare})]_vars
    /\ [][(TakesLine /\ Head(lineChan) \in {Line001, Line001Bare})
             => registered']_vars
    /\ [][(pc = "input" /\ pc' = "input")
             => ((registered => registered') /\ (joined => joined'))]_vars

\* registered by a 001 that has no prefix
C16_Witness ==
    pc = "input" /\ registered /\ ~joined /\ lineChan = <<LineNotice>>

\* C17: when the stream ends the reader closes lineChan; IRCBot ends the
\* session on the closed lineChan only once the queued lines are taken,
\* and under a fair select a session whose lineChan is closed does end:
\* IRCBot closes the transport on the way to the next attempt (or returns
\* because shutdown was requested).
C17_StreamEndEndsSession ==
    /\ [][(reader = "scan" /\ reader' = "exit") => lineChanClosed']_vars
    /\ [][(pc = "input" /\ pc' = "top" /\ ~TakesLine /\ ~TakesSummary)
             => (lineChanClosed /\ lineChan = <<>>)]_vars
    /\ (pc = "input" /\ lineChanClosed)
          ~> \/ pc = "sleep" /\ conn = "nil" /\ openTransports = 0
             \/ pc = "done"

\* a full session ended by the end of the stream
C17_Witness ==
    /\ pc = "top" /\ conn = "conn" /\ spawned /\ registered /\ joined
    /\ lineChanClosed /\ lineChan = <<>> /\ ~sendErr /\ connDelay = 3000

\* C18: under a fair select none of the three sources of the InputLoop is
\* starved: a waiting summary is taken, a waiting line is taken, and a
\* requested shutdown is acted on, or else the session has ended, also
\* while the other two sources stay ready.
C18_NoStarvation ==
    /\ <>[](pc = "input" /\ reportChan # <<>>) => []<><<TakesSummary>>_vars
    /\ <>[](pc = "input" /\ lineChan # <<>>) => []<><<TakesLine>>_vars
    /\ (pc = "input" /\ lineChan = <<>> /\ lineChanClosed) ~> (pc # "input")
    /\ (pc = "input" /\ cancelled) ~> (pc # "input")

\* a summary was served while a line and the shutdown request wait
C18_Witness ==
    /\ pc = "input" /\ cancelled /\ lineChan # <<>> /\ IsTopic(lastOut)

\* C19: IRCBot returns only when shutdown was requested, from one of its
\* two selects; a failed dial, a failed send, the end of the stream, a 433
\* and a 442 for us all lead to the top of ConnectLoop.
C19_ReturnsOnlyOnCancel ==
    /\ [](pc = "done" => cancelled)
    /\ [][(pc # "done" /\ pc' = "done")
             => (cancelled /\ pc \in {"select", "input"})]_vars
    /\ [][(pc = "select" /\ pc' # pc /\ conn' = "nil")
             => pc' \in {"top", "done"}]_vars
    /\ [][(BotStep /\ sendErr') => pc' \in {"top", "input"}]_vars
    /\ [][(pc = "input" /\ pc' # pc) => pc' \in {"top", "done"}]_vars
    /\ [][(TakesLine /\ Head(lineChan) \in {Line433, Line442})
             => pc' = "top"]_vars
    /\ [][pc = "top" => pc' \in {"top", "sleep"}]_vars

\* a 442 for us ended a full session, and IRCBot is about to go on
C19_Witness ==
    /\ pc = "top" /\ conn = "conn" /\ registered /\ joined /\ ~cancelled
    /\ ~lineChanClosed /\ ~sendErr /\ connDelay = 3000

\* C20: an attempt that follows a failed one sleeps longer than the failed
\* one did, unless the delay is at the ceiling.
C20_RetriedWithBackoff ==
    (pc = "sleep" /\ slept # 0) => (connDelay > slept \/ connDelay = 600000)

----------------------------------------------------------------------------
(* Claims about the pipeline                                               *)

\* C1: the serial reader is never blocked for good by the remote endpoint:
\* whenever serialMonitor is sending a matching line on sensorChan, the
\* send eventually completes, however long IRCBot stays disconnected.
C1_SerialSendCompletes == (serialPc = "send") ~> (serialPc = "scan")

----------------------------------------------------------------------------
(* Claims about main and the history store                                 *)

\* What main keeps and sends: the histories, the two output channels and
\* the record and summary it is about to send.
mainEffects ==
    <<histories, reportChan, sensorLogChan, mainPc, mainSummary, mainRecord>>

\* The lines whose last field is not exactly OK.
NotOKLines == {line \in HubLines : line[Len(line)] # "OK"}

\* C21: a line whose last field is not exactly OK has no effect: the step
\* in which main takes it leaves the history map and every history in it
\* as they were, sends nothing on reportChan or sensorLogChan, and leaves
\* main at the top of its loop with nothing to send.
C21_NotOKNoEffect ==
    [][\A line \in NotOKLines : HubRecv(line) => UNCHANGED mainEffects]_vars

\* A line with OK was accepted for node 1, the latest line was skipped as
\* a duplicate, and the histories are those after the first line.
C21_Witness ==
    /\ skipped = "Duplicate"
    /\ mainPc = "recv"
    /\ Len(histories["1"].h.Reports) = 1
    /\ histories["1"].h.Reports[1].TempF = Float(7000)
    /\ ~histories["2"].exists

\* The lines that fail the grammar or have a battery or temperature field
\* that is not a number.
MalformedLines == {LineShort, Line1BadBattery, Line2BadTemp}

\* C22: a malformed line is dropped: the step in which main takes it
\* creates and changes no history, sends nothing on reportChan or
\* sensorLogChan, and leaves main ready for the next line.
C22_MalformedDropped ==
    [][\A line \in MalformedLines :
           HubRecv(line) => (UNCHANGED mainEffects /\ mainPc' = "recv")]_vars

\* A line with a valid battery and an invalid temperature was skipped for
\* node 2, which has no history, not even an empty one.
C22_Witness ==
    /\ skipped = "Bad temperature F"
    /\ ~histories["2"].exists
    /\ histories["1"].exists

\* C23: after each call of Add, whatever its timestamp, every report the
\* history retains is not older than 24 hours before the instant of the
\* call's prune.
C23_WindowAfterAdd ==
    [][\A n \in HubNodes :
           histories'[n] # histories[n] =>
               \A i \in 1..Len(histories'[n].h.Reports) :
                   histories'[n].h.Reports[i].Timestamp >= now - Retention]_vars

\* a >= b on float64
FloatGE(a, b) == ~a.nan /\ ~b.nan /\ a.v >= b.v

\* The temperatures of the reports.
TempsOf(reports) == {reports[i].TempF : i \in 1..Len(reports)}

\* C24: MinTempF and MaxTempF are the minimum and the maximum of TempF
\* over the retained reports, so MaxTempF >= MinTempF when there is a
\* report, and both are 0 when there is none.
C24_MinMaxOverRetained ==
    \A n \in HubNodes :
        LET h == histories[n].h
        IN  IF h.Reports = <<>>
            THEN h.MinTempF = Float(0) /\ h.MaxTempF = Float(0)
            ELSE /\ h.MinTempF \in TempsOf(h.Reports)
                 /\ h.MaxTempF \in TempsOf(h.Reports)
                 /\ \A t \in TempsOf(h.Reports) :
                        FloatGE(t, h.MinTempF) /\ FloatGE(h.MaxTempF, t)
                 /\ FloatGE(h.MaxTempF, h.MinTempF)

\* new is old, or old with one report added at the end, less some reports
\* at the front.
FrontCutOfAppend(old, new) ==
    \/ \E k \in 0..Len(old) : new = SubSeq(old, k + 1, Len(old))
    \/ /\ new # <<>>
       /\ \E k \in 0..Len(old) :
              new = SubSeq(Append(old, new[Len(new)]), k + 1, Len(old) + 1)

\* C25: each step takes a node's retained reports to the same reports,
\* in the same order, with at most one report added at the end and some
\* removed from the front, so they stay a contiguous suffix of the
\* records accepted for the node.
C25_ContiguousSuffix ==
    [][\A n \in HubNodes :
           FrontCutOfAppend(histories[n].h.Reports,
                            histories'[n].h.Reports)]_vars

\* Two reports of node 1 are retained after an older one was removed from
\* the front.
C25_Witness ==
    /\ now = 2 * TickHours
    /\ Len(histories["1"].h.Reports) = 2
    /\ histories["1"].h.Reports[1].Timestamp = TickHours
    /\ histories["1"].h.Reports[2].Timestamp = 2 * TickHours

\* The report of the record main is about to log.
ReportOf(record) ==
    [Timestamp |-> record.Timestamp, TempF |-> record.TempF,
     BatteryV |-> record.BatteryV]

\* main has accepted a line in this step.
AcceptsRecord == mainPc = "recv" /\ mainPc' = "sendReport"

\* C26: main sends on sensorLogChan one record for each accepted line, in
\* the order of arrival, with the node, timestamp, battery and
\* temperature added to the history; a skipped line sends nothing.  A
\* record is built only when a line is accepted and is then the latest
\* report of its node; it is kept while the summary is sent; it is sent
\* once, at the end of sensorLogChan, before the next line is taken; and
\* nothing else is ever put on sensorLogChan.
C26_LogIsAcceptedRecords ==
    /\ [][AcceptsRecord =>
              /\ skipped' = NoSkip
              /\ histories'[mainRecord'.Node].h.Reports # <<>>
              /\ LET reports == histories'[mainRecord'.Node].h.Reports
                 IN  reports[Len(reports)] = ReportOf(mainRecord')
              /\ sensorLogChan' = sensorLogChan]_vars
    /\ [][\A line \in NotOKLines \cup MalformedLines :
              HubRecv(line) =>
                  mainPc' = "recv" /\ sensorLogChan' = sensorLogChan]_vars
    /\ [][mainPc = "sendReport" =>
              /\ mainRecord' = mainRecord
              /\ mainPc' \in {"sendReport", "sendLog"}
              /\ Len(sensorLogChan') <= Len(sensorLogChan)]_vars
    /\ [][(mainPc = "sendLog" /\ mainPc' # "sendLog") =>
              /\ mainPc' = "recv"
              /\ sensorLogChan' = Append(sensorLogChan, mainRecord)]_vars
    /\ [][Len(sensorLogChan') > Len(sensorLogChan) =>
              mainPc = "sendLog" /\ mainPc' = "recv"]_vars
    /\ [][Len(sensorLogChan') <= Len(sensorLogChan) =>
              \/ sensorLogChan' = sensorLogChan
              \/ sensorLogChan' = Tail(sensorLogChan)]_vars

\* The record of an accepted line of node 2 is on sensorLogChan, and it
\* is the latest report of node 2.
C26_Witness ==
    /\ sensorLogChan # <<>>
    /\ Head(sensorLogChan).Node = "2"
    /\ histories["2"].h.Reports # <<>>
    /\ ReportOf(Head(sensorLogChan))
           = histories["2"].h.Reports[Len(histories["2"].h.Reports)]
    /\ skipped = "Duplicate"

\* C30: for each accepted record main submits one summary, formed after
\* the record was added to its node's history, and never submits it
\* again.  The summary is formed in the step that accepts the record, from
\* the histories that step leaves; it is put on reportChan once, and then
\* main has no summary until it accepts the next record.
C30_OneSummaryPerRecord ==
    /\ [][AcceptsRecord =>
              /\ mainSummary' = FormatReportSummary(histories')
              /\ reportChan' = reportChan]_vars
    /\ [][(mainPc = "sendReport" /\ mainPc' # "sendReport") =>
              /\ reportChan' = Append(reportChan, mainSummary)
              /\ mainPc' = "sendLog"
              /\ mainSummary' = NoLine]_vars
    /\ [][Len(reportChan') > Len(reportChan) =>
              mainPc \in {"load", "sendReport"} /\ mainPc' # mainPc]_vars
    /\ [](mainPc \in {"recv", "sendLog"} => mainSummary = NoLine)

\* The summary of an accepted record of node 2 is on reportChan; its slot
\* for node 2 shows the record main is about to log.
C30_Witness ==
    /\ mainPc = "sendLog"
    /\ mainRecord.Node = "2"
    /\ reportChan # <<>>
    /\ reportChan[Len(reportChan)] =
           <<"!pre", " ", "/--/--", "/", "70", " ", "380", " ", "70", " ",
             "70", "/", " ", " ", "2", " ", " ", "h", "13">>

----------------------------------------------------------------------------
(* Claims about SerialConnect                                              *)

\* The paths that exist and match one of the two patterns.
MatchingPaths == devs \cap {DevACM0, DevACM1, DevModem}

\* C27: discovery finds the device only when the patterns together match
\* exactly one path, and then the port is that path; with no match or
\* several it opens nothing, forwards nothing, waits the delay and runs
\* discovery again.
C27_FoundOnlyWhenOne ==
    /\ [][(serialPc = "find" /\ serialPc' # "find") =>
              IF Cardinality(MatchingPaths) = 1
              THEN serialPc' = "stty" /\ MatchingPaths = {port'}
              ELSE /\ serialPc' = "findSleep"
                   /\ port' = NoPort
                   /\ UNCHANGED <<serialOpen, sensorChan, serialLine>>]_vars
    /\ [][serialPc = "findSleep" =>
              /\ serialPc' \in {"findSleep", "find"}
              /\ UNCHANGED <<serialOpen, port, serialLine>>
              /\ Len(sensorChan') <= Len(sensorChan)]_vars
    /\ [](serialPc \in {"find", "findSleep"} => ~serialOpen)

\* Discovery has failed with two matching paths: nothing is open.
C27_Witness ==
    /\ serialPc = "findSleep"
    /\ Cardinality(MatchingPaths) = 2
    /\ port = NoPort
    /\ ~serialOpen

TaggedLines == {LineOK, LineDup, LineTagInside}

\* C29: the lines forwarded to the output channel are the lines read that
\* match the tag filter, each once, in the order read.  A line that does
\* not match changes nothing; a matching line is the one being sent until
\* it is put at the end of the channel, which happens once, when there is
\* room; nothing else is put on the channel.
C29_ForwardsTaggedLines ==
    /\ [][\A line \in SerialLines \ TaggedLines :
              SerialScan(line) =>
                  UNCHANGED <<sensorChan, serialPc, serialLine>>]_vars
    /\ [][\A line \in TaggedLines :
              SerialScan(line) =>
                  /\ serialPc' = "send"
                  /\ serialLine' = line
                  /\ sensorChan' = sensorChan]_vars
    /\ [][serialPc = "send" =>
              \/ /\ serialPc' = "send"
                 /\ serialLine' = serialLine
                 /\ Len(sensorChan') <= Len(sensorChan)
              \/ /\ serialPc' = "scan"
                 /\ Len(sensorChan) < SensorChanCap
                 /\ sensorChan' = Append(sensorChan, serialLine)]_vars
    /\ [][Len(sensorChan') > Len(sensorChan) => serialPc = "send"]_vars
    /\ [][Len(sensorChan') <= Len(sensorChan) =>
              \/ sensorChan' = sensorChan
              \/ sensorChan' = Tail(sensorChan)]_vars

\* A line with the tag in the middle waits to be sent while the channel
\* is full.
C29_Witness ==
    /\ serialPc = "send"
    /\ serialLine = LineTagInside
    /\ Len(sensorChan) = SensorChanCap
    /\ Head(sensorChan) = LineDup

----------------------------------------------------------------------------
(* More claims about main and the history store                            *)

\* The text of a float that is a whole number, or NaN.
Whole(x) == IF x.nan THEN "NaN" ELSE ToString(x.v \div 100)

\* What the summary is to show for a node: the placeholder, or the
\* temperature and the centivolts of the last report, the minimum and the
\* maximum of the history, the node and the time of the last report.
ExpectedSlot(n) ==
    IF ~histories[n].exists \/ histories[n].h.Reports = <<>>
    THEN <<"/--/--">>
    ELSE <<"/",
           Whole(histories[n].h.Reports[Len(histories[n].h.Reports)].TempF),
           " ",
           ToString(histories[n].h.Reports[
                        Len(histories[n].h.Reports)].BatteryV.v),
           " ", Whole(histories[n].h.MinTempF),
           " ", Whole(histories[n].h.MaxTempF),
           "/", " ", " ", n, " ", " ">>
         \o FormatTimestamp(histories[n].h.Reports[
                                Len(histories[n].h.Reports)].Timestamp)

\* C31: the summary is `!pre ` and the slots of node 1 and node 2, in this
\* order; a slot is the placeholder exactly when the node has no history
\* or an empty one, and otherwise shows the last report and the cached
\* minimum and maximum; the summary main is about to send is this one,
\* and a record of another node leaves the summary as it was.
C31_FixedSlots ==
    /\ [](FormatReportSummary(histories)
              = <<"!pre", " ">> \o ExpectedSlot("1") \o ExpectedSlot("2"))
    /\ [](mainPc = "sendReport" =>
              mainSummary
                  = <<"!pre", " ">> \o ExpectedSlot("1") \o ExpectedSlot("2"))
    /\ [][HubRecv(Line7Cool) =>
              FormatReportSummary(histories')
                  = FormatReportSummary(histories)]_vars

\* main is about to send the summary of a record of node 7: node 1 has an
\* empty history and node 2 has a report, so the summary has the
\* placeholder and the slot of node 2.
C31_Witness ==
    /\ mainPc = "sendReport"
    /\ mainRecord.Node = "7"
    /\ histories["1"].exists
    /\ histories["1"].h.Reports = <<>>
    /\ mainSummary =
           <<"!pre", " ", "/--/--", "/", "70", " ", "380", " ", "70", " ",
             "70", "/", " ", " ", "2", " ", " ", "h", "0">>

\* The nodes whose history this step changes.
ChangedNodes == {n \in HubNodes : histories'[n] # histories[n]}

\* C40: a record of node X changes the history of X only: the other
\* histories keep their reports, old ones too, and their minimum and
\* maximum; a node that has a history keeps having one; after an accepted
\* record the history of X ends with the new report.
C40_OnlyOwnHistory ==
    /\ [][AcceptsRecord =>
              /\ ChangedNodes \subseteq {mainRecord'.Node}
              /\ histories'[mainRecord'.Node].exists
              /\ histories'[mainRecord'.Node].h.Reports # <<>>
              /\ histories'[mainRecord'.Node].h.Reports[
                     Len(histories'[mainRecord'.Node].h.Reports)]
                     = ReportOf(mainRecord')]_vars
    /\ [][Cardinality(ChangedNodes) <= 1]_vars
    /\ [][\A n \in HubNodes :
              histories[n].exists => histories'[n].exists]_vars

\* A record of node 2 was accepted at hour 26; node 1 still has its report
\* of hour 0, which is older than the window.
C40_Witness ==
    /\ mainPc = "sendReport"
    /\ mainRecord.Node = "2"
    /\ now = 2 * TickHours
    /\ histories["1"].h.Reports # <<>>
    /\ histories["1"].h.Reports[1].Timestamp = 0

----------------------------------------------------------------------------
(* More claims about IRCBot                                                *)

\* C32: a write that returns an error, of NICK, USER, JOIN, TOPIC or PONG,
\* ends the session: the step of IRCBot in which ircSend fails leads to
\* the top of ConnectLoop, so that nothing more is taken or written on
\* the transport.
C32_SendErrorRestarts == [][(BotStep /\ sendErr') => pc' = "top"]_vars

\* C33: a connection is dialled only from the select that follows the
\* sleep: IRCBot comes to the select only from the sleep, having slept the
\* delay that is current then, and while it stays at the select it has
\* not dialled; a failed dial leads back to the top and the sleep.
C33_SleepBeforeDial ==
    /\ [][(pc' = "select" /\ pc # "select") =>
              /\ pc = "sleep"
              /\ slept' = connDelay
              /\ connDelay' = connDelay]_vars
    /\ [][(pc = "select" /\ pc' = "select") =>
              UNCHANGED <<conn, err, connDelay, openTransports>>]_vars
    /\ [][openTransports' > openTransports =>
              pc = "select" /\ pc' = "nick"]_vars
    /\ [][(pc = "select" /\ pc' = "top") => err' = "err"]_vars
    /\ [](pc = "select" => slept = connDelay)

\* IRCBot is about to dial again after a failed dial and has slept the
\* grown delay.
C33_Witness ==
    /\ pc = "select"
    /\ err = "err"
    /\ connDelay > baseDelay
    /\ slept = connDelay

\* Lines that are not 001, 433, PING, a 442 for our nick and channel or
\* our own JOIN of our channel.
OtherLines ==
    {LineBanner, LineNotice, LineIndented, Line442Nick, Line442Chan,
     Line442Longer, LineJoinNick, LineJoinChan, LineJoinLonger}

\* C34: taking a line that is none of 001, 433, a matching 442, a matching
\* JOIN or PING leaves registered, joined, the delay and the transport as
\* they are, keeps the session, and writes nothing.
C34_OtherLinesNoEffect ==
    [][(TakesLine /\ Head(lineChan) \in OtherLines) =>
           /\ UNCHANGED <<registered, joined, connDelay, conn,
                          openTransports, pc>>
           /\ lastOut' = NoLine]_vars

\* C35: at most one transport is open at any time; none is open when
\* IRCBot sleeps or is about to dial, so the one before was closed; none
\* is open when IRCBot has returned.
C35_OneTransport ==
    /\ [](openTransports \in {0, 1})
    /\ [](pc \in {"sleep", "select", "done"} => openTransports = 0)
    /\ [](openTransports = 1 => conn = "conn")

\* IRCBot is about to dial after a session that it ended; the transport
\* of that session is closed.
C35_Witness ==
    /\ pc = "select"
    /\ openTransports = 0
    /\ conn = "nil"
    /\ reader \in {"scan", "send", "exit"}
    /\ ~cancelled

\* C37: a line is dispatched only in the session of the transport it was
\* read on.  A session starts with a new, empty, open lineChan, and what
\* was queued or is queued later for a lineChan that IRCBot has left
\* behind is never in the lineChan it reads.
C37_NoStaleLines ==
    /\ [](pc = "input" =>
              \A i \in 1..Len(lineChan) : lineChan[i] # DeadLine)
    /\ [][(pc = "spawn" /\ pc' = "input") =>
              /\ lineChan' = <<>>
              /\ ~lineChanClosed'
              /\ ~registered'
              /\ ~joined']_vars
    /\ [][TakesLine => Head(lineChan) # DeadLine]_vars

\* A new session is about to start while a line of the session before is
\* still queued and its reader holds another.
C37_Witness ==
    /\ pc = "spawn"
    /\ lineChan = <<DeadLine>>
    /\ reader = "send"

ExpectedTopic(msg) == <<"TOPIC", " ", Channel, " ", ":">> \o msg

C36_ReaderTerminates == (pc # "input") ~> (reader = "exit")

----------------------------------------------------------------------------
(* More claims about the pipeline                                          *)

\* C39: main goes on whatever becomes of the logger: after StartLogger has
\* returned early, the send of every accepted record on sensorLogChan
\* still completes, and main comes back to receive the next line.
C39_LogSendCompletes == (mainPc = "sendLog") ~> (mainPc = "recv")

============================================================================
